---- MODULE Spec2Model ----
(***************************************************************************)
(* The workshop notebooks of foss4g-2021 as state machines.                *)
(*                                                                         *)
(*   SpecStack   the Sentinel-2 workflow of the STAC notebook: the signed  *)
(*               items are stacked into a (time, band, y, x) array, values *)
(*               <= 0 are masked, the array is computed and forward-filled *)
(*               along time.                                               *)
(*   SpecGoes    the hurricane notebook: the catalog is searched page by   *)
(*               page, the items are signed and sorted by datetime, and    *)
(*               the (time, band, y, x) array is concatenated from them.   *)
(*   SpecLazy    the raster part of the Pangeo notebook: a raster is       *)
(*               opened, reduced, chunked into a dask array, reduced       *)
(*               again, and computed, persisted or plotted; the chunk      *)
(*               tasks of an execution run one by one, in any order.       *)
(*   SpecGateway the option handler of the dask-gateway configuration: a   *)
(*               user submits cluster options, the option fields are       *)
(*               validated and option_handler turns them into a cluster    *)
(*               configuration or raises.                                  *)
(*   SpecDeploy  the deployment: the make targets create the node pools,   *)
(*               pools change their size, and dask worker pods are placed  *)
(*               on nodes by their affinity and tolerations.               *)
(*   SpecDaymet  the Daymet part of the distributed notebook: the dataset  *)
(*               is opened, its summer months are kept, and the early and  *)
(*               the late period are selected and averaged.                *)
(*   SpecStorm   the storm track cell of the hurricane notebook: the best  *)
(*               track file is opened, the storm is located by its id and  *)
(*               its track is selected.                                    *)
(*   SpecAnimate the animation of the hurricane notebook: the items of a   *)
(*               search are sorted, the array is built, the figure is made *)
(*               and FuncAnimation calls animate for every frame.          *)
(*   SpecLandsat the STAC part of the Landsat notebook: the elevation      *)
(*               raster is opened, the Landsat items are cloned, patched   *)
(*               and signed in a loop, then opened and stacked.            *)
(*                                                                         *)
(* A specification is one notebook run in one kernel; it leaves the        *)
(* variables the notebook does not use at their idle values.               *)
(***************************************************************************)
EXTENDS Integers, Sequences, FiniteSets, TLC

VARIABLES
    pc,             \* the last cell that ran, or the exception that ended it
    signed_items,   \* `signed_items`: the signed items (hurricane: sorted by datetime)
    ds,             \* STAC notebook: the DataArray `ds`, a sequence of time slices
    lazy,           \* STAC notebook: TRUE while `ds` is a dask graph, not yet computed
    catalog,        \* hurricane: the items the remote catalog holds
    request,        \* hurricane: the parameters of catalog.search(...)
    items,          \* hurricane: `items`, the search results received so far
    pages,          \* hurricane: the number of result pages requested
    ndvi,           \* STAC notebook: the DataArray `ndvi`
    ts,             \* STAC notebook: the time series `ts`
    data,           \* hurricane: the DataArray `data`
    backing,        \* Pangeo: what holds the values of `da`: "file", "dask"
    graph,          \* Pangeo: the operations composed on `da` and not yet executed
    exec,           \* Pangeo: the call whose chunk tasks are outstanding, or "none"
    todo,           \* Pangeo: the chunks whose task has not run in this execution
    reads,          \* Pangeo: the number of pixel reads made so far
    runs,           \* Pangeo: the number of chunk tasks executed so far
    options,        \* gateway: the cluster options a user submitted
    config,         \* gateway: the configuration option_handler returned, if any
    nodes,          \* deployment: the number of nodes of every node pool made so far
    pods,           \* deployment: the number of dask worker pods placed on every pool
    tmax,           \* Daymet: the time axis of ds.tmax, a set of dates
    summer,         \* Daymet: the time axis of `summer`
    early,          \* Daymet: the dates the early mean is taken over
    late,           \* Daymet: the dates the late mean is taken over
    sid,            \* storm track: ds.sid, the ids of the storms of the dataset
    storm_loc,      \* storm track: `storm_loc`, an index on the storm axis from 0
    storm,          \* storm track: the storm ds.sel(storm=storm_loc) selected, if any
    img,            \* animation: the image the figure shows, if any
    label,          \* animation: the timestamp text the figure shows, if any
    calls,          \* animation: the indices animate was called with, in order
    heap,           \* Landsat: the STAC item objects made so far; a reference is a position
    the_item,       \* Landsat: what `item` is bound to, a reference, if any
    loop_i,         \* Landsat: the position in `items` the signing loop is at
    opened          \* Landsat: the references of the items whose asset href was opened

daskVars == <<backing, graph, exec, todo, reads, runs>>

seriesVars == <<ndvi, ts>>

gatewayVars == <<options, config>>

deployVars == <<nodes, pods>>

\* the state of the deployment before any make target has run
DeployIdle ==
    nodes = <<>> /\ pods = <<>>

daymetVars == <<tmax, summer, early, late>>

\* the state of the Daymet variables before the dataset is opened
DaymetIdle ==
    tmax = {} /\ summer = {} /\ early = {} /\ late = {}

stormVars == <<sid, storm_loc, storm>>

\* the state of the storm track variables before the file is opened
StormIdle ==
    sid = <<>> /\ storm_loc = <<>> /\ storm = <<>>

animVars == <<img, label, calls>>

\* the state of the figure before it is made
AnimIdle ==
    img = <<>> /\ label = <<>> /\ calls = <<>>

landsatVars == <<heap, the_item, loop_i, opened>>

\* the state of the Landsat variables before a search
LandsatIdle ==
    heap = <<>> /\ the_item = <<>> /\ loop_i = 0 /\ opened = <<>>

vars == <<pc, signed_items, ds, lazy, seriesVars, catalog, request, items, pages,
          data, daskVars, gatewayVars,
          deployVars,
          daymetVars,
          stormVars,
          animVars,
          landsatVars>>

\* the state of the gateway variables before a cluster is asked for
GatewayIdle == options = <<>> /\ config = <<>>

\* the state of `ndvi` and `ts` before their cells have run
SeriesIdle == ndvi = <<>> /\ ts = <<>>

\* the state of the raster variables before a raster is opened
DaskIdle ==
    /\ backing = "none"
    /\ graph = 0
    /\ exec = "none"
    /\ todo = {}
    /\ reads = 0
    /\ runs = 0

(***************************************************************************)
(* Bounds of the model.                                                    *)
(***************************************************************************)
\* the largest number of items a search returns
MaxItems == 2
\* the number of pixels of the output grid (the x axis; y is abstracted)
GridW == 2

Pixels == 1..GridW
\* acquisition times: enough values for all items to differ, or to coincide
Times == 1..MaxItems

(***************************************************************************)
(* Items and rasters.                                                      *)
(***************************************************************************)
\* assets=["B02", "B03", "B04", "B08"]
Bands == <<"B02", "B03", "B04", "B08">>

BandIdx == 1..Len(Bands)

\* the value of a cell that holds no data (NaN): it is not > 0, like every
\* comparison with NaN
NaN == -1

\* An item: its id, its footprint lo..hi on the grid, its acquisition datetime,
\* and whether its raster holds only the file's nodata value 0.
ItemAttrs ==
    { a \in [lo : Pixels, hi : Pixels, datetime : Times, dark : BOOLEAN] : a.lo <= a.hi }

\* the items of a list, each with its position in the list as its id
WithIds(a) ==
    [k \in DOMAIN a |-> [id |-> k, lo |-> a[k].lo, hi |-> a[k].hi,
                         datetime |-> a[k].datetime, dark |-> a[k].dark]]

Covers(item, p) == item.lo <= p /\ p <= item.hi

\* The pixel value the asset `b` of `item` holds at p: 0 is the file's nodata,
\* any other value is distinct for every (item, band).
Raw(item, b, p) ==
    IF ~Covers(item, p) THEN NaN
    ELSE IF item.dark THEN 0
    ELSE (item.id - 1) * Len(Bands) + b

(***************************************************************************)
(* stackstac.stack, where, ffill.                                          *)
(***************************************************************************)
\* sortby_date=False: the items stay in the supplied order
SortSupplied(s) == s

\* x put behind every item of the sorted s that is not later than x
InsertByDate(s, x) ==
    LET k == Cardinality({ i \in 1..Len(s) : s[i].datetime <= x.datetime })
    IN  SubSeq(s, 1, k) \o <<x>> \o SubSeq(s, k + 1, Len(s))

\* stackstac.stack sorts the items by datetime, ascending (its default); the sort
\* is stable, so items of equal datetime keep their supplied order
RECURSIVE SortByDate(_)
SortByDate(s) ==
    IF s = <<>> THEN <<>>
    ELSE InsertByDate(SortByDate(SubSeq(s, 1, Len(s) - 1)), s[Len(s)])

\* one time slice of the array: the item's datetime and id as coordinates, and
\* for every band the pixels of the grid
Slice(item) ==
    [time |-> item.datetime, id |-> item.id,
     data |-> [b \in BandIdx |-> [p \in Pixels |-> Raw(item, b, p)]]]

\* stackstac.stack(signed_items, assets=..., bounds_latlon=bbox, resolution=90):
\* one slice per item, in date order
StackstacStack(s) ==
    LET o == SortByDate(s) IN [k \in 1..Len(o) |-> Slice(o[k])]

\* a mask that keeps the file's nodata value 0: x >= 0 in place of x > 0
WhereNonNegative(a) ==
    [k \in DOMAIN a |->
        [a[k] EXCEPT !.data =
            [b \in BandIdx |-> [p \in Pixels |->
                IF a[k].data[b][p] >= 0 THEN a[k].data[b][p] ELSE NaN]]]]

\* .where(lambda x: x > 0): a value that is not > 0 becomes NaN
Where(a) ==
    [k \in DOMAIN a |->
        [a[k] EXCEPT !.data =
            [b \in BandIdx |-> [p \in Pixels |->
                IF a[k].data[b][p] > 0 THEN a[k].data[b][p] ELSE NaN]]]]

\* a fill along time that runs backward: slice k with its missing values
\* taken from the slices after it
RECURSIVE BfillFrom(_, _)
BfillFrom(a, k) ==
    IF k = Len(a) THEN a[k]
    ELSE LET next == BfillFrom(a, k + 1)
         IN  [a[k] EXCEPT !.data =
                 [b \in BandIdx |-> [p \in Pixels |->
                     IF a[k].data[b][p] # NaN THEN a[k].data[b][p]
                     ELSE next.data[b][p]]]]

Bfill(a) == [k \in DOMAIN a |-> BfillFrom(a, k)]

\* slice k of a forward-filled along time: a NaN takes the value the filled
\* slice before it has at the same band and pixel
RECURSIVE FfillTo(_, _)
FfillTo(a, k) ==
    IF k = 1 THEN a[1]
    ELSE LET prev == FfillTo(a, k - 1)
         IN  [a[k] EXCEPT !.data =
                [b \in BandIdx |-> [p \in Pixels |->
                    IF a[k].data[b][p] # NaN THEN a[k].data[b][p]
                    ELSE prev.data[b][p]]]]

\* .ffill(dim="time")
Ffill(a) == [k \in DOMAIN a |-> FfillTo(a, k)]

(***************************************************************************)
(* The Sentinel-2 workflow of the STAC notebook.                           *)
(***************************************************************************)
\* no search has been made
NoRequest == [bbox |-> <<>>, start |-> 0, stop |-> 0]

\* no array has been built
NoArray == [time |-> <<>>, band |-> <<>>, source |-> <<>>]

\* the variables the Sentinel-2 workflow does not use
StackFrame ==
    UNCHANGED <<catalog, request, items, pages, data, daskVars, gatewayVars,
                deployVars, daymetVars, stormVars, animVars, landsatVars>>

StackInit ==
    /\ signed_items = <<>>
    /\ ds = <<>>
    /\ lazy = FALSE
    /\ pc = "start"
    /\ catalog = {}
    /\ request = NoRequest
    /\ items = <<>>
    /\ pages = 0
    /\ data = NoArray
    /\ DaskIdle
    /\ SeriesIdle
    /\ GatewayIdle
    /\ DeployIdle
    /\ DaymetIdle
    /\ StormIdle
    /\ AnimIdle
    /\ LandsatIdle

\* items = list(low_cloud_search.get_all_items())
\* signed_items = [planetary_computer.sign(item).to_dict() for item in items]
\* (item = items[0] in between raises IndexError when the search found nothing)
SignCell ==
    /\ pc = "start"
    /\ \E n \in 1..MaxItems : \E a \in [1..n -> ItemAttrs] :
          signed_items' = WithIds(a)
    /\ pc' = "signed"
    /\ UNCHANGED <<ds, lazy, seriesVars>>
    /\ StackFrame

\* ds = stackstac.stack(signed_items, ...).where(lambda x: x > 0)
StackCell ==
    /\ pc = "signed"
    /\ ds' = Where(StackstacStack(signed_items))
    /\ lazy' = TRUE
    /\ pc' = "stacked"
    /\ UNCHANGED <<signed_items, seriesVars>>
    /\ StackFrame

\* ds = ds.compute().ffill(dim="time")
ComputeCell ==
    /\ pc = "stacked"
    /\ ds' = Ffill(ds)
    /\ lazy' = FALSE
    /\ pc' = "filled"
    /\ UNCHANGED <<signed_items, seriesVars>>
    /\ StackFrame

\* a value of `ndvi` or `ts`: the fraction num / den; 0 / 0 is NaN
NaNFrac == [num |-> 0, den |-> 0]

\* (nir - red) / (nir + red) of one pixel; NaN when either band is NaN
Ratio(nir, red) ==
    IF nir = NaN \/ red = NaN THEN NaNFrac
    ELSE [num |-> nir - red, den |-> nir + red]

\* the position of a band on the band axis: ds.sel(band=name)
RECURSIVE BandAt(_, _)
BandAt(name, b) == IF Bands[b] = name THEN b ELSE BandAt(name, b + 1)

\* ndvi = (nir - red) / (nir + red), slice by slice and pixel by pixel
Ndvi(a) ==
    [k \in DOMAIN a |->
        [time |-> a[k].time,
         id   |-> a[k].id,
         data |-> [p \in Pixels |->
                     Ratio(a[k].data[BandAt("B08", 1)][p],
                           a[k].data[BandAt("B04", 1)][p])]]]

\* the sum of the pixels 1..p of a slice that are not NaN, as a fraction
RECURSIVE SumTo(_, _)
SumTo(row, p) ==
    IF p = 0 THEN [num |-> 0, den |-> 1]
    ELSE LET rest == SumTo(row, p - 1)
         IN  IF row[p] = NaNFrac THEN rest
             ELSE [num |-> rest.num * row[p].den + row[p].num * rest.den,
                   den |-> rest.den * row[p].den]

\* the mean of the pixels of a slice that are not NaN; NaN when all are
MeanOf(row) ==
    LET n == Cardinality({ p \in Pixels : row[p] # NaNFrac })
        total == SumTo(row, GridW)
    IN  IF n = 0 THEN NaNFrac ELSE [num |-> total.num, den |-> total.den * n]

\* a mean over every axis, time included: a single value
MeanOverAll(a) ==
    IF a = <<>> THEN <<>>
    ELSE << [time |-> a[1].time, value |-> MeanOf(a[1].data)] >>

\* ndvi.mean(dim=["y", "x"]): the spatial axes go, the time axis stays
MeanYX(a) == [k \in DOMAIN a |-> [time |-> a[k].time, value |-> MeanOf(a[k].data)]]

\* the cell blue = ds.sel(band="B02") ... ndvi = (nir - red) / (nir + red)
NdviCell ==
    /\ pc = "filled"
    /\ ndvi' = Ndvi(ds)
    /\ pc' = "ndvi"
    /\ UNCHANGED <<signed_items, ds, lazy, ts>>
    /\ StackFrame

\* ts = ndvi.mean(dim=["y", "x"])
MeanCell ==
    /\ pc = "ndvi"
    /\ ts' = MeanYX(ndvi)
    /\ pc' = "ts"
    /\ UNCHANGED <<signed_items, ds, lazy, ndvi>>
    /\ StackFrame

StackNext == SignCell \/ StackCell \/ ComputeCell \/ NdviCell \/ MeanCell

SpecStack == StackInit /\ [][StackNext]_vars

(***************************************************************************)
(* The hurricane notebook: search, sign and sort, build the array.         *)
(***************************************************************************)
\* the number of positions of the longitude axis the footprints lie on
WorldW == 2
\* the number of distinct acquisition times
MaxTime == 2
\* the largest number of items the catalog holds
MaxCatalog == 3
\* limit=500: the number of items of one result page
Limit == 1

World == 1..WorldW

\* an interval lo..hi of the longitude axis: an item footprint or a bbox
Intervals == { b \in [lo : World, hi : World] : b.lo <= b.hi }

\* the items a catalog can hold: a footprint and an acquisition datetime
GoesItems ==
    { i \in [lo : World, hi : World, datetime : 1..MaxTime] : i.lo <= i.hi }

\* catalog.search(collections=["goes-cmi"], bbox=bbox, datetime=[start, stop], ...)
Requests ==
    { r \in [bbox : Intervals, start : 1..MaxTime, stop : 1..MaxTime] :
        r.start <= r.stop }

\* the item's footprint and the bbox have a point in common
Intersects(item, bbox) == item.lo <= bbox.hi /\ bbox.lo <= item.hi

\* the item's footprint lies inside the bbox
Within(item, bbox) == bbox.lo <= item.lo /\ item.hi <= bbox.hi

\* the item's datetime lies in the closed interval [start, stop]
InInterval(item, r) == r.start <= item.datetime /\ item.datetime <= r.stop

\* a search that drops the datetime filter
MatchesAnyTime(item, r) == Intersects(item, r.bbox)

\* the items the search selects: bbox= and intersects= select the items whose
\* footprint intersects the region, datetime= those inside the interval
Matches(item, r) == Intersects(item, r.bbox) /\ InInterval(item, r)

\* the order the server lists items in: by datetime, the latest first, then by
\* footprint
ServerKey(item) ==
    ((MaxTime - item.datetime) * (WorldW + 1) + item.lo) * (WorldW + 1) + item.hi

RECURSIVE ServerOrder(_)
ServerOrder(S) ==
    IF S = {} THEN <<>>
    ELSE LET first == CHOOSE x \in S : \A y \in S : ServerKey(x) <= ServerKey(y)
         IN  <<first>> \o ServerOrder(S \ {first})

\* every item of the catalog the request selects, in the server's order
Results(cat, r) == ServerOrder({ i \in cat : Matches(i, r) })

\* the items left in the order the search returned them
KeepOrder(s) == s

\* sorted(..., key=lambda x: x.datetime): ascending and stable
RECURSIVE SortedByDatetime(_)
SortedByDatetime(s) ==
    IF s = <<>> THEN <<>>
    ELSE InsertByDate(SortedByDatetime(SubSeq(s, 1, Len(s) - 1)), s[Len(s)])

\* bands = ["C01_2km", "C02_2km", "C03_2km"]
GoesBands == <<"C01_2km", "C02_2km", "C03_2km">>

\* the eo:bands common names of the three assets
CommonNames == <<"blue", "red", "nir09">>

\* the asset keys an item can come with: all three bands, or all but the last
AssetSets ==
    { { GoesBands[b] : b \in 1..Len(GoesBands) },
      { GoesBands[b] : b \in 1..(Len(GoesBands) - 1) } }

\* an item as a page of the search hands it over: the descriptor of the
\* catalog with its assets
WithAssets(i, a) ==
    [lo |-> i.lo, hi |-> i.hi, datetime |-> i.datetime, assets |-> a]

\* the descriptor of the catalog an item was made from
Descriptor(item) == [lo |-> item.lo, hi |-> item.hi, datetime |-> item.datetime]

\* item.assets[band] raises KeyError for some requested band
LacksBand(item) == \E b \in 1..Len(GoesBands) : GoesBands[b] \notin item.assets

\* the array of a build that went through
Built(sgn) ==
    [ok     |-> TRUE,
     error  |-> "none",
     time   |-> [k \in 1..Len(sgn) |-> sgn[k].datetime],
     band   |-> CommonNames,
     source |-> [k \in 1..Len(sgn) |->
                    [b \in 1..Len(GoesBands) |->
                        [item  |-> sgn[k],
                         asset |-> IF GoesBands[b] \in sgn[k].assets
                                   THEN GoesBands[b] ELSE "missing"]]]]

\* a build that ended with an error of the given kind
Failed(kind) ==
    [ok |-> FALSE, error |-> kind, time |-> <<>>, band |-> <<>>, source |-> <<>>]

\* a build that puts up with an empty item list and returns an empty array
BuildUnchecked(its, sgn) ==
    IF \E k \in 1..Len(sgn) : LacksBand(sgn[k])
    THEN Failed("KeyError")
    ELSE Built(sgn)

\* a build that leaves out the asset an item lacks
BuildSkipsMissing(its, sgn) ==
    IF Len(its) = 0 \/ Len(sgn) = 0
    THEN Failed("IndexError")
    ELSE Built(sgn)

\* common_names = [items[0].assets[band]... for band in bands]: IndexError when
\* items is empty, KeyError when items[0] lacks a band; time = the datetimes of
\* signed_items; arrays = one concatenation of the three bands per signed
\* item, KeyError when an item lacks a band; data = xr.concat(arrays, dim=time)
Build(its, sgn) ==
    IF Len(its) = 0 \/ Len(sgn) = 0
    THEN Failed("IndexError")
    ELSE IF LacksBand(its[1]) \/ \E k \in 1..Len(sgn) : LacksBand(sgn[k])
    THEN Failed("KeyError")
    ELSE Built(sgn)

\* the variables the hurricane notebook does not use
GoesFrame == UNCHANGED <<ds, lazy, seriesVars, daskVars, gatewayVars,
                deployVars, daymetVars, stormVars, animVars, landsatVars>>

GoesInit ==
    /\ pc = "start"
    /\ signed_items = <<>>
    /\ ds = <<>>
    /\ lazy = FALSE
    /\ catalog = {}
    /\ request = NoRequest
    /\ items = <<>>
    /\ pages = 0
    /\ data = NoArray
    /\ DaskIdle
    /\ SeriesIdle
    /\ GatewayIdle
    /\ DeployIdle
    /\ DaymetIdle
    /\ StormIdle
    /\ AnimIdle
    /\ LandsatIdle

\* search = catalog.search(...): the request is built, nothing is fetched yet.
\* The catalog's content and the bbox of the storm track are the inputs.
SearchCall ==
    /\ pc = "start"
    /\ \E c \in SUBSET GoesItems : \E r \in Requests :
          /\ Cardinality(c) <= MaxCatalog
          /\ catalog' = c
          /\ request' = r
    /\ pc' = "searching"
    /\ UNCHANGED <<signed_items, items, pages, data>>
    /\ GoesFrame

\* the items of the next page: the results from position `from` + 1 to
\* `upto`, each with the assets a[k] the server sends for it
Page(all, from, upto, a) ==
    [k \in 1..(upto - from) |-> WithAssets(all[from + k], a[k])]

\* the position of the last result of the next page
PageEnd(all, from) ==
    IF from + Limit <= Len(all) THEN from + Limit ELSE Len(all)

\* a search that returns after its first page
FetchFirstPageOnly ==
    /\ pc = "searching"
    /\ LET all  == Results(catalog, request)
           upto == PageEnd(all, Len(items))
       IN  \E a \in [1..(upto - Len(items)) -> AssetSets] :
             LET got == items \o Page(all, Len(items), upto, a)
             IN  /\ items' = got
                 /\ pages' = pages + 1
                 /\ pc' = "searched"
                 /\ signed_items' = SortedByDatetime(got)
    /\ UNCHANGED <<catalog, request, data>>
    /\ GoesFrame

\* items = search.get_all_items(): one request per page of `limit` items, until
\* a page comes without a next link; then signed_items = sorted([sign(item) for
\* item in items], key=lambda x: x.datetime)
FetchPage ==
    /\ pc = "searching"
    /\ LET all  == Results(catalog, request)
           upto == PageEnd(all, Len(items))
       IN  \E a \in [1..(upto - Len(items)) -> AssetSets] :
             LET got == items \o Page(all, Len(items), upto, a)
             IN  /\ items' = got
                 /\ pages' = pages + 1
                 /\ IF upto = Len(all)
                    THEN pc' = "searched" /\ signed_items' = SortedByDatetime(got)
                    ELSE pc' = "searching" /\ UNCHANGED signed_items
    /\ UNCHANGED <<catalog, request, data>>
    /\ GoesFrame

\* the cell that builds `data` from items and signed_items
BuildCell ==
    /\ pc = "searched"
    /\ LET built == Build(items, signed_items)
       IN  IF built.ok
           THEN /\ data' = [time |-> built.time, band |-> built.band,
                            source |-> built.source]
                /\ pc' = "built"
           ELSE /\ data' = data
                /\ pc' = built.error
    /\ UNCHANGED <<signed_items, catalog, request, items, pages>>
    /\ GoesFrame

GoesNext == SearchCall \/ FetchPage \/ BuildCell

SpecGoes == GoesInit /\ [][GoesNext]_vars

(***************************************************************************)
(* The raster part of the Pangeo notebook: lazy arrays and their triggers. *)
(***************************************************************************)
\* the number of chunks da.chunk(dict(x=2048, y=2048)) divides the raster into
NChunks == 4
\* the largest number of operations composed before an execution
MaxGraph == 2
\* the largest number of pixel reads of a run
MaxReads == 8

Chunks == 1..NChunks

\* the kernel is busy inside a call that waits for its chunk tasks
Suspended == exec \in {"compute", "plot"}

\* the variables the raster part does not use
LazyFrame ==
    UNCHANGED <<signed_items, ds, lazy, seriesVars, catalog, request, items, pages,
                data, gatewayVars, deployVars, daymetVars, stormVars, animVars,
                landsatVars>>

LazyInit ==
    /\ pc = "start"
    /\ signed_items = <<>>
    /\ ds = <<>>
    /\ lazy = FALSE
    /\ catalog = {}
    /\ request = NoRequest
    /\ items = <<>>
    /\ pages = 0
    /\ data = NoArray
    /\ DaskIdle
    /\ SeriesIdle
    /\ GatewayIdle
    /\ DeployIdle
    /\ DaymetIdle
    /\ StormIdle
    /\ AnimIdle
    /\ LandsatIdle

\* da = rioxarray.open_rasterio(url, masked=True): the file is opened, no
\* pixel is read
OpenRasterio ==
    /\ pc = "start"
    /\ backing' = "file"
    /\ pc' = "open_rasterio"
    /\ UNCHANGED <<graph, exec, todo, reads, runs>>
    /\ LazyFrame

\* da.mean() on the raster as opened: all data is read into local RAM and the
\* result is presented
MeanEager ==
    /\ backing = "file"
    /\ ~Suspended
    /\ reads < MaxReads
    /\ reads' = reads + 1
    /\ pc' = "mean"
    /\ UNCHANGED <<backing, graph, exec, todo, runs>>
    /\ LazyFrame

\* da.hvplot.image(...) on the raster as opened: the plot reads the data
PlotEager ==
    /\ backing = "file"
    /\ ~Suspended
    /\ reads < MaxReads
    /\ reads' = reads + 1
    /\ pc' = "plot"
    /\ UNCHANGED <<backing, graph, exec, todo, runs>>
    /\ LazyFrame

\* da = da.chunk(dict(x=2048, y=2048)): the data becomes a dask array
ChunkCell ==
    /\ backing = "file"
    /\ ~Suspended
    /\ backing' = "dask"
    /\ pc' = "chunk"
    /\ UNCHANGED <<graph, exec, todo, reads, runs>>
    /\ LazyFrame

\* a reduction of a dask array that computes at once
MeanComputesAtOnce ==
    /\ backing = "dask"
    /\ ~Suspended
    /\ graph < MaxGraph
    /\ reads < MaxReads
    /\ graph' = graph + 1
    /\ reads' = reads + 1
    /\ runs' = runs + 1
    /\ pc' = "mean"
    /\ UNCHANGED <<backing, exec, todo>>
    /\ LazyFrame

\* da.mean() (and .sel, arithmetic) on a dask array: only the task graph of
\* computations is created
MeanLazy ==
    /\ backing = "dask"
    /\ ~Suspended
    /\ graph < MaxGraph
    /\ graph' = graph + 1
    /\ pc' = "mean"
    /\ UNCHANGED <<backing, exec, todo, reads, runs>>
    /\ LazyFrame

\* .compute(): an execution of the graph starts, one task per chunk, and the
\* call returns when every task has run
ComputeCall ==
    /\ backing = "dask"
    /\ exec = "none"
    /\ reads + NChunks <= MaxReads
    /\ exec' = "compute"
    /\ todo' = Chunks
    /\ pc' = "compute"
    /\ UNCHANGED <<backing, graph, reads, runs>>
    /\ LazyFrame

\* .persist() with a distributed client: the chunk tasks are submitted and
\* the call returns; the work happens on the cluster
PersistCall ==
    /\ backing = "dask"
    /\ exec = "none"
    /\ reads + NChunks <= MaxReads
    /\ exec' = "persist"
    /\ todo' = Chunks
    /\ pc' = "persist"
    /\ UNCHANGED <<backing, graph, reads, runs>>
    /\ LazyFrame

\* plotting a dask array: a computation that is not asked for explicitly but
\* triggered by the visualization
PlotLazy ==
    /\ backing = "dask"
    /\ exec = "none"
    /\ reads + NChunks <= MaxReads
    /\ exec' = "plot"
    /\ todo' = Chunks
    /\ pc' = "plot"
    /\ UNCHANGED <<backing, graph, reads, runs>>
    /\ LazyFrame

\* a worker runs the task of one chunk: it reads the chunk's pixels and
\* computes; with the last task the execution ends and the graph is done
RunTask ==
    /\ exec # "none"
    /\ \E c \in todo :
          /\ todo' = todo \ {c}
          /\ IF todo = {c}
             THEN exec' = "none" /\ graph' = 0
             ELSE UNCHANGED <<exec, graph>>
    /\ reads' = reads + 1
    /\ runs' = runs + 1
    /\ UNCHANGED <<pc, backing>>
    /\ LazyFrame

LazyNext ==
    \/ OpenRasterio
    \/ MeanEager
    \/ PlotEager
    \/ ChunkCell
    \/ MeanLazy
    \/ ComputeCall
    \/ PersistCall
    \/ PlotLazy
    \/ RunTask

SpecLazy == LazyInit /\ [][LazyNext]_vars

(***************************************************************************)
(* The option handler of the dask-gateway configuration.                   *)
(***************************************************************************)
\* Float("worker_cores", 1, min=1, max=16)
CoresMin == 1
CoresMax == 16
\* Float("worker_memory", 8, min=8, max=128)
MemoryMin == 8
MemoryMax == 128
\* "%f" writes six digits after the point
Million == 1000000
\* a submitted number is a multiple of 1 / Steps
Steps == 2
\* the longest image name submitted
MaxImageLen == 2

\* the characters of an image name: the tag separator and any other
Chars == {":", "a"}

Images == UNION { [1..n -> Chars] : n \in 0..MaxImageLen }

\* singleuser.image: the name and the tag of the image of the notebook servers
SingleuserName == "pcccr.azurecr.io/planetary-computer/radiant-earth-foss4g"
SingleuserTag == "2021.09.27.0"

\* JUPYTER_IMAGE_SPEC in a notebook server: name:tag of the single-user image
JupyterImageSpec == <<SingleuserName, ":", SingleuserTag>>

\* String("image", default="pangeo/pangeo-notebook:latest"): the image of the
\* gateway when a client sends none
ServerDefaultImage == <<"pangeo/pangeo-notebook", ":", "latest">>

\* a notebook server whose environment does not set the image option
ClientImageUnset == ServerDefaultImage

\* the image a client in a notebook server sends when the user gives none:
\* DASK_GATEWAY__CLUSTER__OPTIONS__IMAGE: '{JUPYTER_IMAGE_SPEC}'
ClientImage == JupyterImageSpec

\* Mapping("environment", {}): the names of the variables passed to workers
Environments == SUBSET {"GDAL_HTTP_MAX_RETRY"}

\* the option sets a user can submit: numbers in units of 1 / Steps, from one
\* step below the least to one step above the greatest value of each field;
\* `given` tells whether the user named an image
Submitted ==
    [worker_cores  : (CoresMin * Steps - 1)..(CoresMax * Steps + 1),
     worker_memory : (MemoryMin * Steps - 1)..(MemoryMax * Steps + 1),
     image         : Images,
     environment   : Environments,
     given         : SUBSET {"image"}]

\* the options the gateway receives: what the user gave, and for the image,
\* when the user gave none, the one of the client's configuration
Received(o) ==
    [o EXCEPT !.image = IF "image" \in o.given THEN o.image ELSE ClientImage]

\* the min= and max= of the Float fields
FieldsValid(o) ==
    /\ CoresMin * Steps <= o.worker_cores /\ o.worker_cores <= CoresMax * Steps
    /\ MemoryMin * Steps <= o.worker_memory /\ o.worker_memory <= MemoryMax * Steps

\* ":" in options.image
HasColon(image) == \E k \in DOMAIN image : image[k] = ":"

\* 0.88 * min(options.worker_cores / 2, 1), as a fraction
CoresRequest(n) ==
    IF n <= 2 * Steps
    THEN [num |-> 88 * n, den |-> 100 * 2 * Steps]
    ELSE [num |-> 88, den |-> 100]

\* "%fG" % x: x = num / den rounded to six digits after the point, as the
\* number of millionths the text spells
Format(num, den) ==
    LET whole == num \div den
        rest  == num % den
    IN  whole * Million + (2 * rest * Million + den) \div (2 * den)

\* the configuration of a handler that goes through
Configuration(o) ==
    [worker_cores        |-> CoresRequest(o.worker_cores),
     worker_cores_limit  |-> [num |-> o.worker_cores, den |-> Steps],
     worker_memory       |-> Format(9 * o.worker_memory, 10 * Steps),
     worker_memory_limit |-> Format(o.worker_memory, Steps),
     image               |-> o.image,
     environment         |-> o.environment]

\* a handler that gives the limits as requests and the requests as limits
HandlerSwapsLimits(o) ==
    IF ~HasColon(o.image)
    THEN [error |-> "ValueError", result |-> <<>>]
    ELSE [error |-> "none",
          result |-> << [Configuration(o) EXCEPT
                            !.worker_cores = Configuration(o).worker_cores_limit,
                            !.worker_cores_limit = Configuration(o).worker_cores,
                            !.worker_memory = Configuration(o).worker_memory_limit,
                            !.worker_memory_limit = Configuration(o).worker_memory] >>]

\* a handler that takes any image
HandlerAnyImage(o) ==
    [error |-> "none", result |-> << Configuration(o) >>]

\* option_handler(options): ValueError("When specifying an image you must also
\* provide a tag") when the image has no ":", the configuration otherwise
option_handler(o) ==
    IF ~HasColon(o.image)
    THEN [error |-> "ValueError", result |-> <<>>]
    ELSE [error |-> "none", result |-> << Configuration(o) >>]

\* the variables the gateway does not use
GatewayFrame ==
    UNCHANGED <<signed_items, ds, lazy, seriesVars, catalog, request, items, pages,
                data, daskVars, deployVars, daymetVars, stormVars, animVars,
                landsatVars>>

GatewayInit ==
    /\ pc = "start"
    /\ signed_items = <<>>
    /\ ds = <<>>
    /\ lazy = FALSE
    /\ catalog = {}
    /\ request = NoRequest
    /\ items = <<>>
    /\ pages = 0
    /\ data = NoArray
    /\ DaskIdle
    /\ SeriesIdle
    /\ GatewayIdle
    /\ DeployIdle
    /\ DaymetIdle
    /\ StormIdle
    /\ AnimIdle
    /\ LandsatIdle

\* a user asks for a cluster with options; the Float fields are checked
\* against their min and max
NewCluster ==
    /\ pc = "start"
    /\ \E o \in Submitted :
          /\ options' = << Received(o) >>
          /\ pc' = IF FieldsValid(o) THEN "options" ELSE "invalid"
    /\ UNCHANGED config
    /\ GatewayFrame

\* the gateway calls handler=option_handler on the accepted options
OptionHandler ==
    /\ pc = "options"
    /\ LET r == option_handler(options[1])
       IN  /\ config' = r.result
           /\ pc' = IF r.error = "none" THEN "configured" ELSE r.error
    /\ UNCHANGED options
    /\ GatewayFrame

GatewayNext == NewCluster \/ OptionHandler

SpecGateway == GatewayInit /\ [][GatewayNext]_vars

(***************************************************************************)
(* The deployment: node pools of the Makefile, worker pods of the gateway. *)
(***************************************************************************)
\* the most nodes a pool has
MaxNodes == 2
\* the most worker pods placed
MaxPods == 2

\* --nodepool-name core, --name users, manualusers, workers
PoolNames == {"core", "users", "manualusers", "workers"}

\* --nodepool-labels and --labels of the four pools
PoolLabels(p) ==
    CASE p = "core"        -> { <<"hub.jupyter.org/node-purpose", "core">> }
      [] p = "users"       -> { <<"hub.jupyter.org/node-purpose", "user">> }
      [] p = "manualusers" -> { <<"hub.jupyter.org/node-purpose", "user">> }
      [] p = "workers"     -> { <<"k8s.dask.org/dedicated", "worker">> }

\* the taints of the nodes of a pool: --priority Spot gives the nodes the
\* scalesetpriority taint the configuration tolerates
PoolTaints(p) ==
    IF p = "workers"
    THEN { <<"kubernetes.azure.com/scalesetpriority", "spot">> }
    ELSE {}

\* --node-count of the target that makes the pool
FirstNodeCount(p) == IF p = "manualusers" THEN 0 ELSE 1

\* --enable-cluster-autoscaler
Autoscaled == {"users", "workers"}

\* extraPodConfig.tolerations of the worker pods
Tolerations ==
    { <<"k8s.dask.org/dedicated", "worker">>,
      <<"k8s.dask.org_dedicated", "worker">>,
      <<"kubernetes.azure.com/scalesetpriority", "spot">> }

\* an affinity that is a preference: every node will do
AffinityPreferred(labels) == TRUE

\* nodeAffinity.requiredDuringSchedulingIgnoredDuringExecution: the node has
\* the label k8s.dask.org/dedicated with a value among ["worker"]
AffinityRequired(labels) ==
    \E l \in labels : l[1] = "k8s.dask.org/dedicated" /\ l[2] \in {"worker"}

\* a worker pod can be placed on a node of pool p
Schedulable(p) ==
    /\ AffinityRequired(PoolLabels(p))
    /\ PoolTaints(p) \subseteq Tolerations

\* the pools with their node counts after pool p got n nodes
WithPool(f, p, n) == [q \in DOMAIN f \cup {p} |-> IF q = p THEN n ELSE f[q]]

\* the variables the deployment does not use
DeployFrame ==
    UNCHANGED <<signed_items, ds, lazy, seriesVars, catalog, request, items, pages,
                data, daskVars, gatewayVars, daymetVars, stormVars, animVars,
                landsatVars>>

DeployInit ==
    /\ pc = "start"
    /\ signed_items = <<>>
    /\ ds = <<>>
    /\ lazy = FALSE
    /\ catalog = {}
    /\ request = NoRequest
    /\ items = <<>>
    /\ pages = 0
    /\ data = NoArray
    /\ DaskIdle
    /\ SeriesIdle
    /\ GatewayIdle
    /\ DeployIdle
    /\ DaymetIdle
    /\ StormIdle
    /\ AnimIdle
    /\ LandsatIdle

\* make cluster: az aks create with the node pool core
MakeCluster ==
    /\ pc = "start"
    /\ nodes' = WithPool(nodes, "core", FirstNodeCount("core"))
    /\ pods' = WithPool(pods, "core", 0)
    /\ pc' = "cluster"
    /\ DeployFrame

\* make userpool, manualuserpool, workerpool: az aks nodepool add
MakePool ==
    /\ pc # "start"
    /\ \E p \in PoolNames \ DOMAIN nodes :
          /\ nodes' = WithPool(nodes, p, FirstNodeCount(p))
          /\ pods' = WithPool(pods, p, 0)
    /\ pc' = "nodepool"
    /\ DeployFrame

\* the node count of a pool changes: the autoscaler of users and workers,
\* make scale for manualusers; the pods of a pool left without nodes go
Resize ==
    /\ \E p \in DOMAIN nodes \cap (Autoscaled \cup {"manualusers"}) :
       \E n \in 0..MaxNodes :
          /\ n # nodes[p]
          /\ nodes' = WithPool(nodes, p, n)
          /\ pods' = IF n = 0 THEN WithPool(pods, p, 0) ELSE pods
    /\ pc' = "scale"
    /\ DeployFrame

\* the scheduler places a dask worker pod on a node it can be placed on
PlaceWorker ==
    /\ \E p \in DOMAIN nodes :
          /\ nodes[p] >= 1
          /\ Schedulable(p)
          /\ pods[p] < MaxPods
          /\ pods' = WithPool(pods, p, pods[p] + 1)
    /\ pc' = "worker"
    /\ UNCHANGED nodes
    /\ DeployFrame

DeployNext == MakeCluster \/ MakePool \/ Resize \/ PlaceWorker

SpecDeploy == DeployInit /\ [][DeployNext]_vars

(***************************************************************************)
(* The Daymet part of the distributed notebook: summer warming.            *)
(***************************************************************************)
\* the years of the dataset reach this far around 1988 and around 2018
YearSpan == 1

\* the year the early period ends in and the late period begins in
BaselineYear == 1988
\* the year the late period ends in
LastLateYear == 2018

Years ==
    ((BaselineYear - YearSpan)..(BaselineYear + YearSpan))
        \cup ((LastLateYear - YearSpan + 1)..(LastLateYear + YearSpan))

\* a date yyyy-mm-dd as the number yyyymmdd, which orders as the text does
Date(y, m, d) == y * 10000 + m * 100 + d

\* the dates a time axis can hold: the first of every month and the 31st of
\* the long months
Dates == { Date(y, m, d) : y \in Years, m \in 1..12, d \in {1, 31} }
            \ { Date(y, m, 31) : y \in Years, m \in {2, 4, 6, 9, 11} }

\* ds.time.dt.month
MonthOf(t) == (t \div 100) % 100

\* summer_months = [6, 7, 8]
summer_months == {6, 7, 8}

\* early_period = slice(None, "1988-12-31"): both ends of a slice of labels
\* are included; None leaves the side open
InEarlyPeriod(t) == t <= Date(BaselineYear, 12, 31)

\* late_period = slice("1988-01-01", "2018-12-31")
InLatePeriod(t) ==
    Date(BaselineYear, 1, 1) <= t /\ t <= Date(LastLateYear, 12, 31)

\* the variables the Daymet part does not use
DaymetFrame ==
    UNCHANGED <<signed_items, ds, lazy, seriesVars, catalog, request, items, pages,
                data, daskVars, gatewayVars, deployVars, stormVars, animVars,
                landsatVars>>

DaymetInit ==
    /\ pc = "start"
    /\ signed_items = <<>>
    /\ ds = <<>>
    /\ lazy = FALSE
    /\ catalog = {}
    /\ request = NoRequest
    /\ items = <<>>
    /\ pages = 0
    /\ data = NoArray
    /\ DaskIdle
    /\ SeriesIdle
    /\ GatewayIdle
    /\ DeployIdle
    /\ DaymetIdle
    /\ StormIdle
    /\ AnimIdle
    /\ LandsatIdle

\* ds = xr.open_zarr(asset.href, ...): a dataset whose time axis runs from a
\* first to a last date
OpenZarr ==
    /\ pc = "start"
    /\ \E first \in Dates : \E last \in Dates :
          /\ first <= last
          /\ tmax' = { t \in Dates : first <= t /\ t <= last }
    /\ pc' = "open_zarr"
    /\ UNCHANGED <<summer, early, late>>
    /\ DaymetFrame

\* summer = ds.tmax.where(ds.time.dt.month.isin(summer_months), drop=True)
SummerCell ==
    /\ pc = "open_zarr"
    /\ summer' = { t \in tmax : MonthOf(t) \in summer_months }
    /\ pc' = "summer"
    /\ UNCHANGED <<tmax, early, late>>
    /\ DaymetFrame

\* early, late = dask.compute(summer.sel(time=early_period).mean(dim="time"),
\*                            summer.sel(time=late_period).mean(dim="time"))
PeriodsCell ==
    /\ pc = "summer"
    /\ early' = { t \in summer : InEarlyPeriod(t) }
    /\ late' = { t \in summer : InLatePeriod(t) }
    /\ pc' = "periods"
    /\ UNCHANGED <<tmax, summer>>
    /\ DaymetFrame

DaymetNext == OpenZarr \/ SummerCell \/ PeriodsCell

SpecDaymet == DaymetInit /\ [][DaymetNext]_vars

(***************************************************************************)
(* The storm track cell of the hurricane notebook.                         *)
(***************************************************************************)
\* the most storms a dataset holds
MaxStorms == 3

\* STORM_ID = b"2018242N13343"
STORM_ID == "2018242N13343"

\* the ids a storm of the file can have
StormIds == {STORM_ID, "2018250N14322", "2018255N33317"}

\* ds.sid == STORM_ID: one truth value per storm
IsStorm(s) == [k \in DOMAIN s |-> s[k] = STORM_ID]

\* argmax of truth values: the index, from 0, of the first greatest value,
\* which is the first TRUE and, when there is none, the first value
ArgMax(flags) ==
    IF \E k \in DOMAIN flags : flags[k]
    THEN (CHOOSE k \in DOMAIN flags :
             flags[k] /\ \A j \in 1..(k - 1) : ~flags[j]) - 1
    ELSE 0

\* the variables the storm track cell does not use
StormFrame ==
    UNCHANGED <<signed_items, ds, lazy, seriesVars, catalog, request, items, pages,
                data, daskVars, gatewayVars, deployVars, daymetVars, animVars,
                landsatVars>>

StormInit ==
    /\ pc = "start"
    /\ signed_items = <<>>
    /\ ds = <<>>
    /\ lazy = FALSE
    /\ catalog = {}
    /\ request = NoRequest
    /\ items = <<>>
    /\ pages = 0
    /\ data = NoArray
    /\ DaskIdle
    /\ SeriesIdle
    /\ GatewayIdle
    /\ DeployIdle
    /\ DaymetIdle
    /\ StormIdle
    /\ AnimIdle
    /\ LandsatIdle

\* ds = xr.open_dataset(file): a file of some storms
OpenDataset ==
    /\ pc = "start"
    /\ \E n \in 0..MaxStorms : sid' \in [1..n -> StormIds]
    /\ pc' = "open_dataset"
    /\ UNCHANGED <<storm_loc, storm>>
    /\ StormFrame

\* storm_loc = (ds.sid == STORM_ID).argmax().item(); argmax of an empty array
\* raises ValueError
LocateStorm ==
    /\ pc = "open_dataset"
    /\ IF Len(sid) = 0
       THEN pc' = "ValueError" /\ UNCHANGED storm_loc
       ELSE pc' = "storm_loc" /\ storm_loc' = ArgMax(IsStorm(sid))
    /\ UNCHANGED <<sid, storm>>
    /\ StormFrame

\* data = ds.sel(storm=storm_loc): the storm at that index
SelectStorm ==
    /\ pc = "storm_loc"
    /\ storm' = << [index |-> storm_loc, sid |-> sid[storm_loc + 1]] >>
    /\ pc' = "sel"
    /\ UNCHANGED <<sid, storm_loc>>
    /\ StormFrame

StormNext == OpenDataset \/ LocateStorm \/ SelectStorm

SpecStorm == StormInit /\ [][StormNext]_vars

(***************************************************************************)
(* The animation of the hurricane notebook.                                *)
(***************************************************************************)
\* the most items the search of an animation returns
MaxFrames == 3

\* rgb[i]: the image of the time position i, counted from 0; the bands of rgb
\* are made of the three bands of `data` at that position
RgbAt(i) == data.source[i + 1]

\* pd.Timestamp(rgb.time.data[i]).isoformat()
TimeLabel(i) == data.time[i + 1]

\* an animate that leaves the label of the first frame
AnimateStaleLabel(i) == [img |-> << RgbAt(i) >>, label |-> << TimeLabel(0) >>]

\* animate(i): img.set_data(rgb[i]...); label.set_text(...rgb.time.data[i]...)
animate(i) == [img |-> << RgbAt(i) >>, label |-> << TimeLabel(i) >>]

\* the variables the animation does not use
AnimFrame ==
    UNCHANGED <<ds, lazy, seriesVars, daskVars, gatewayVars, deployVars, daymetVars,
                stormVars, landsatVars>>

AnimInit ==
    /\ pc = "start"
    /\ signed_items = <<>>
    /\ ds = <<>>
    /\ lazy = FALSE
    /\ catalog = {}
    /\ request = NoRequest
    /\ items = <<>>
    /\ pages = 0
    /\ data = NoArray
    /\ DaskIdle
    /\ SeriesIdle
    /\ GatewayIdle
    /\ DeployIdle
    /\ DaymetIdle
    /\ StormIdle
    /\ AnimIdle
    /\ LandsatIdle

\* the search cell as a whole: items = search.get_all_items(), some items in
\* the order of the server, and signed_items = sorted(..., key=datetime)
SearchCell ==
    /\ pc = "start"
    /\ \E n \in 1..MaxFrames :
       \E t \in [1..n -> 1..MaxTime] : \E a \in [1..n -> AssetSets] :
          LET got == [k \in 1..n |->
                        WithAssets([lo |-> 1, hi |-> 1, datetime |-> t[k]], a[k])]
          IN  /\ items' = got
              /\ signed_items' = SortedByDatetime(got)
    /\ pc' = "searched"
    /\ UNCHANGED <<catalog, request, pages, data, animVars>>
    /\ AnimFrame

\* fig, ax = plt.subplots(...); img = rgb[0].plot.imshow(...); label =
\* ax.text(..., pd.Timestamp(rgb.time.data[0]).isoformat(), ...)
FigureCell ==
    /\ pc = "built"
    /\ img' = << RgbAt(0) >>
    /\ label' = << TimeLabel(0) >>
    /\ pc' = "figure"
    /\ UNCHANGED <<signed_items, catalog, request, items, pages, data, calls>>
    /\ AnimFrame

\* ani.save(...) draws the first frame of frames=len(rgb) once to set the
\* figure up, then every frame 0 .. len(rgb) - 1 in turn
DrawFrame ==
    /\ pc \in {"figure", "animate"}
    /\ Len(calls) <= Len(data.time)
    /\ LET i == IF calls = <<>> THEN 0 ELSE Len(calls) - 1
           shown == animate(i)
       IN  /\ img' = shown.img
           /\ label' = shown.label
           /\ calls' = Append(calls, i)
    /\ pc' = "animate"
    /\ UNCHANGED <<signed_items, catalog, request, items, pages, data>>
    /\ AnimFrame

\* the last frame is written and ani.save returns
SaveDone ==
    /\ pc = "animate"
    /\ Len(calls) = Len(data.time) + 1
    /\ pc' = "save"
    /\ UNCHANGED <<signed_items, catalog, request, items, pages, data, animVars>>
    /\ AnimFrame

AnimNext == SearchCell \/ BuildCell \/ FigureCell \/ DrawFrame \/ SaveDone

SpecAnimate == AnimInit /\ [][AnimNext]_vars

(***************************************************************************)
(* SpecLandsat: the STAC part of the Landsat notebook.  The NASADEM search *)
(* leaves `item` bound to its last result and the elevation raster of that *)
(* item is opened; the Landsat search is followed by the loop that clones, *)
(* patches and signs every item, and the signed items are opened and       *)
(* stacked.  Items are objects: `heap` holds them and a reference is a     *)
(* position in it, so that a change made through one name is seen through  *)
(* every other name of the same object.                                    *)
(***************************************************************************)
\* the EPSG code the loop writes into every item
FixedEpsg == 32619

\* the EPSG codes a returned item can carry: the one the loop writes, another
\* one, or none (0)
EpsgCodes == {FixedEpsg, 32620, 0}

\* the link sets a returned item can carry
LinkSets == {{}, {"self", "collection"}}

\* the item objects a search of a collection can return, the n-th with id n
Returned(coll, n) ==
    [id : {<<coll, n>>}, epsg : EpsgCodes, links : LinkSets, signed : {FALSE}]

\* the references of the objects appended to the heap by a call that makes n
Fresh(n) == [k \in 1..n |-> Len(heap) + k]

\* mutant of clone: the same object under another name
CloneAliases(ref) == [heap |-> heap, ref |-> ref]

\* item.clone(): a new object equal to the given one
Clone(ref) == [heap |-> Append(heap, heap[ref]), ref |-> Len(heap) + 1]

\* mutant of planetary_computer.sign: the item comes back as it was
SignSkipped(obj) == obj

\* planetary_computer.sign(item): a new item whose asset hrefs carry a token
Sign(obj) == [obj EXCEPT !.signed = TRUE]

\* the variables the Landsat notebook's STAC part does not use
LandsatFrame ==
    UNCHANGED <<ds, lazy, seriesVars, catalog, request, pages, data, daskVars,
                gatewayVars, deployVars, daymetVars, stormVars, animVars>>

LandsatInit ==
    /\ pc = "start"
    /\ signed_items = <<>>
    /\ ds = <<>>
    /\ lazy = FALSE
    /\ catalog = {}
    /\ request = NoRequest
    /\ items = <<>>
    /\ pages = 0
    /\ data = NoArray
    /\ DaskIdle
    /\ SeriesIdle
    /\ GatewayIdle
    /\ DeployIdle
    /\ DaymetIdle
    /\ StormIdle
    /\ AnimIdle
    /\ LandsatIdle

\* for item in search.get_all_items(): print(item.id), on the NASADEM search:
\* `item` stays bound to the last item, and is unbound if there was none
DemSearch ==
    /\ pc = "start"
    /\ \E n \in 0..MaxItems :
         \E found \in [1..n -> UNION { Returned("nasadem", k) : k \in 1..n }] :
            /\ \A k \in 1..n : found[k].id = <<"nasadem", k>>
            /\ heap' = heap \o found
            /\ the_item' = IF n = 0 THEN <<>> ELSE << Len(heap) + n >>
    /\ pc' = "nasadem"
    /\ UNCHANGED <<items, signed_items, loop_i, opened>>
    /\ LandsatFrame

\* url = item.assets['elevation'].href; rioxarray.open_rasterio(url, masked=True)
DemOpen ==
    /\ pc = "nasadem"
    /\ IF the_item = <<>>
         THEN pc' = "NameError" /\ UNCHANGED opened
         ELSE pc' = "elevation" /\ opened' = Append(opened, the_item[1])
    /\ UNCHANGED <<heap, the_item, items, signed_items, loop_i>>
    /\ LandsatFrame

\* items = search.get_all_items(); signed_items = [], on the Landsat search
GetAllItems ==
    /\ pc \in {"start", "nasadem", "elevation"}
    /\ \E n \in 0..MaxItems :
         \E found \in [1..n -> UNION { Returned("landsat-8-c2-l2", k) : k \in 1..n }] :
            /\ \A k \in 1..n : found[k].id = <<"landsat-8-c2-l2", k>>
            /\ heap' = heap \o found
            /\ items' = Fresh(n)
    /\ signed_items' = <<>>
    /\ loop_i' = 1
    /\ pc' = "for"
    /\ UNCHANGED <<the_item, opened>>
    /\ LandsatFrame

\* for item in items: item = item.clone()
CloneItem ==
    /\ pc = "for"
    /\ loop_i <= Len(items)
    /\ LET made == Clone(items[loop_i])
       IN  heap' = made.heap /\ the_item' = << made.ref >>
    /\ pc' = "clone"
    /\ UNCHANGED <<items, signed_items, loop_i, opened>>
    /\ LandsatFrame

\* item.properties['proj:epsg'] = 32619
SetEpsg ==
    /\ pc = "clone"
    /\ heap' = [heap EXCEPT ![the_item[1]].epsg = FixedEpsg]
    /\ pc' = "epsg"
    /\ UNCHANGED <<the_item, items, signed_items, loop_i, opened>>
    /\ LandsatFrame

\* item.clear_links()
ClearLinks ==
    /\ pc = "epsg"
    /\ heap' = [heap EXCEPT ![the_item[1]].links = {}]
    /\ pc' = "links"
    /\ UNCHANGED <<the_item, items, signed_items, loop_i, opened>>
    /\ LandsatFrame

\* signed_items.append(planetary_computer.sign(item)), and the next iteration
SignAppend ==
    /\ pc = "links"
    /\ heap' = Append(heap, Sign(heap[the_item[1]]))
    /\ signed_items' = Append(signed_items, Len(heap) + 1)
    /\ loop_i' = loop_i + 1
    /\ pc' = "for"
    /\ UNCHANGED <<the_item, items, opened>>
    /\ LandsatFrame

\* the loop has no item left
LoopEnd ==
    /\ pc = "for"
    /\ loop_i > Len(items)
    /\ pc' = "signed"
    /\ UNCHANGED <<heap, the_item, items, signed_items, loop_i, opened>>
    /\ LandsatFrame

\* item = signed_items[0]; rioxarray.open_rasterio(item.assets['SR_B4'].href)
OpenFirst ==
    /\ pc = "signed"
    /\ IF signed_items = <<>>
         THEN pc' = "IndexError" /\ UNCHANGED <<the_item, opened>>
         ELSE /\ the_item' = << signed_items[1] >>
              /\ opened' = Append(opened, signed_items[1])
              /\ pc' = "SR_B4"
    /\ UNCHANGED <<heap, items, signed_items, loop_i>>
    /\ LandsatFrame

\* stackstac.stack(signed_items, assets=[...]): the array is built from the
\* hrefs of every signed item
StackSigned ==
    /\ pc \in {"signed", "SR_B4"}
    /\ signed_items # <<>>
    /\ opened' = opened \o signed_items
    /\ pc' = "stack"
    /\ UNCHANGED <<heap, the_item, items, signed_items, loop_i>>
    /\ LandsatFrame

LandsatNext ==
    \/ DemSearch
    \/ DemOpen
    \/ GetAllItems
    \/ CloneItem
    \/ SetEpsg
    \/ ClearLinks
    \/ SignAppend
    \/ LoopEnd
    \/ OpenFirst
    \/ StackSigned

SpecLandsat == LandsatInit /\ [][LandsatNext]_vars

(***************************************************************************)
(* Claims about the built array (SpecStack).                               *)
(***************************************************************************)
\* the item a slice was built from: ids are the positions in signed_items
ItemOf(k) == signed_items[ds[k].id]

\* the positions of the time axis that carry the label t and hold a value at
\* band b, pixel p
SourcesAt(t, b, p) ==
    { k \in DOMAIN ds : ds[k].time = t /\ ds[k].data[b][p] # NaN }

\* C2 as stated: in the built array every coordinate (time, band, pixel) of the
\* declared axes resolves to at most one source or is no-data, and every
\* source timestamp is on the time axis.
C2_CoordinateHasOneSource ==
    pc = "stacked" =>
        /\ \A t \in Times : \A b \in BandIdx : \A p \in Pixels :
              Cardinality(SourcesAt(t, b, p)) <= 1
        /\ \A i \in DOMAIN signed_items :
              \E k \in DOMAIN ds : ds[k].time = signed_items[i].datetime

\* C2 amended: the time axis has one position per item (none dropped, none
\* merged), labelled with that item's datetime; every cell (position, band,
\* pixel) is no-data exactly when its item does not cover the pixel or holds no
\* value > 0 there, and otherwise holds the value of exactly one source, the
\* asset of its own item.
C2_CellHasOneSource ==
    pc = "stacked" =>
        /\ Len(ds) = Len(signed_items)
        /\ \A i \in DOMAIN signed_items :
              Cardinality({ k \in DOMAIN ds : ds[k].id = i }) = 1
        /\ \A k \in DOMAIN ds :
              /\ ds[k].time = ItemOf(k).datetime
              /\ DOMAIN ds[k].data = BandIdx
              /\ \A b \in BandIdx :
                    /\ DOMAIN ds[k].data[b] = Pixels
                    /\ \A p \in Pixels :
                          LET v == ds[k].data[b][p]
                          IN  IF Covers(ItemOf(k), p) /\ Raw(ItemOf(k), b, p) > 0
                              THEN { i \in DOMAIN signed_items :
                                       Raw(signed_items[i], b, p) = v } = { ds[k].id }
                              ELSE v = NaN

\* C2 witness: a built array in which two overlapping items share a datetime
\* (two positions, one label, both with a value at the same pixel) and in
\* which some cell is no-data.
C2_Witness ==
    /\ pc = "stacked"
    /\ \E t \in Times : \E b \in BandIdx : \E p \in Pixels :
          Cardinality(SourcesAt(t, b, p)) = 2
    /\ \E k \in DOMAIN ds : \E b \in BandIdx : \E p \in Pixels :
          ds[k].data[b][p] = NaN

\* every order in which the same items can be supplied
Perms(s) ==
    { [k \in 1..Len(s) |-> s[f[k]]] :
        f \in { g \in [1..Len(s) -> 1..Len(s)] :
                   \A i, j \in 1..Len(s) : g[i] = g[j] => i = j } }

\* the array the two cells compute from a list of items
Composite(s) == Ffill(Where(StackstacStack(s)))

\* the result does not depend on the order the items were supplied in
OrderIndependent == \A q \in Perms(signed_items) : Composite(q) = ds

\* the items acquired at or before the time of position k that hold a value
\* at band b, pixel p
Candidates(k, b, p) ==
    { i \in DOMAIN signed_items :
        /\ signed_items[i].datetime <= ds[k].time
        /\ Raw(signed_items[i], b, p) > 0 }

\* every cell holds the value of a latest-acquired candidate, and is no-data
\* when there is no candidate
LatestWins ==
    \A k \in DOMAIN ds : \A b \in BandIdx : \A p \in Pixels :
        IF Candidates(k, b, p) = {} THEN ds[k].data[b][p] = NaN
        ELSE \E i \in Candidates(k, b, p) :
                /\ ds[k].data[b][p] = Raw(signed_items[i], b, p)
                /\ \A j \in Candidates(k, b, p) :
                      signed_items[j].datetime <= signed_items[i].datetime

DistinctTimes ==
    \A i, j \in DOMAIN signed_items :
        signed_items[i].datetime = signed_items[j].datetime => i = j

\* C10 as stated: in the forward-filled array the value where items overlap is
\* the one of the item latest in acquisition order, whatever the order the
\* items were supplied in.
C10_LastWriteWinsAnyOrder ==
    pc = "filled" => OrderIndependent /\ LatestWins

\* C10 amended: when the items have pairwise distinct datetimes, the
\* forward-filled value of a cell is the one of the latest item acquired at or
\* before the cell's time that holds a value there, whatever the order the
\* items were supplied in.
C10_LastWriteWinsDistinctTimes ==
    (pc = "filled" /\ DistinctTimes) => OrderIndependent /\ LatestWins

\* C10 witness: two items of distinct datetimes, supplied latest first, both
\* holding a value at a common pixel, and a cell of the later slice filled
\* from the earlier item.
C10_Witness ==
    /\ pc = "filled"
    /\ DistinctTimes
    /\ \E i, j \in DOMAIN signed_items :
          /\ i < j
          /\ signed_items[i].datetime > signed_items[j].datetime
          /\ \E p \in Pixels :
                Raw(signed_items[i], 1, p) > 0 /\ Raw(signed_items[j], 1, p) > 0
    /\ \E k \in DOMAIN ds : \E p \in Pixels :
          /\ ds[k].data[1][p] # NaN
          /\ ds[k].data[1][p] # Raw(ItemOf(k), 1, p)

\* the masked array before the fill
Masked == Where(StackstacStack(signed_items))

\* the times at or before the time of position k at which band b, pixel p
\* of the masked array m had a value > 0
TimesWithValue(m, k, b, p) ==
    { m[j].time : j \in { i \in DOMAIN m :
          m[i].time <= ds[k].time /\ m[i].data[b][p] # NaN } }

\* the greatest element of a set of times that is not empty
Latest(T) == CHOOSE t \in T : \A u \in T : u <= t

\* C23 as stated: after the fill a cell (t, band, pixel) holds the value seen
\* at the latest time t' <= t at which that band and pixel had a value > 0,
\* and is no-data exactly when there is no such time.
C23_FilledFromLatestTime ==
    pc = "filled" =>
        LET m == Masked
        IN  \A k \in DOMAIN ds : \A b \in BandIdx : \A p \in Pixels :
              LET T == TimesWithValue(m, k, b, p)
              IN  IF T = {} THEN ds[k].data[b][p] = NaN
                  ELSE \E j \in DOMAIN m :
                          /\ m[j].time = Latest(T)
                          /\ m[j].data[b][p] # NaN
                          /\ ds[k].data[b][p] = m[j].data[b][p]

\* the positions at or before k at which band b, pixel p of the masked array
\* m had a value > 0
PositionsWithValue(m, k, b, p) ==
    { j \in 1..k : m[j].data[b][p] # NaN }

\* C23 amended: after the fill a cell (position k of the time axis, band,
\* pixel) holds the value of the last position k' <= k at which that band and
\* pixel had a value > 0, and is no-data exactly when there is no such
\* position; the time of k' is not later than the time of k, and the fill
\* takes no value from a later position, another band or another pixel.
C23_FilledFromLastPosition ==
    pc = "filled" =>
        LET m == Masked
        IN  /\ Len(ds) = Len(m)
            /\ \A k \in DOMAIN ds : \A b \in BandIdx : \A p \in Pixels :
                  LET P == PositionsWithValue(m, k, b, p)
                  IN  IF P = {} THEN ds[k].data[b][p] = NaN
                      ELSE LET last == CHOOSE j \in P : \A i \in P : i <= j
                           IN  /\ ds[k].data[b][p] = m[last].data[b][p]
                               /\ m[last].time <= ds[k].time

\* C23 witness: a cell of the second position filled from the first, and a
\* cell of the first position left no-data although the second position has
\* a value there.
C23_Witness ==
    /\ pc = "filled"
    /\ Len(ds) >= 2
    /\ \E b \in BandIdx : \E p \in Pixels :
          /\ Masked[2].data[b][p] = NaN
          /\ ds[2].data[b][p] # NaN
          /\ ds[2].data[b][p] = Masked[1].data[b][p]
    /\ \E b \in BandIdx : \E p \in Pixels :
          /\ ds[1].data[b][p] = NaN
          /\ Masked[2].data[b][p] # NaN

(***************************************************************************)
(* Claims about the catalog search and the build (SpecGoes).               *)
(***************************************************************************)
\* C1 as stated: every item received, on any page, lies inside the requested
\* bbox and inside the requested time interval.
C1_ResultsInsideBounds ==
    \A k \in DOMAIN items :
        Within(items[k], request.bbox) /\ InInterval(items[k], request)

\* C1 amended: every item received, on any page, has a footprint that
\* intersects the requested bbox and a datetime inside the requested interval.
C1_ResultsIntersectBounds ==
    \A k \in DOMAIN items :
        Intersects(items[k], request.bbox) /\ InInterval(items[k], request)

\* C1 witness: a finished search of two pages or more that returned an item
\* reaching beyond the bbox and left out an item of the catalog.
C1_Witness ==
    /\ pc = "searched"
    /\ pages >= 2
    /\ \E k \in DOMAIN items : ~Within(items[k], request.bbox)
    /\ \E i \in catalog : ~Matches(i, request)

\* no item of the catalog intersects the requested region and time interval
NoMatch == \A i \in catalog : ~Matches(i, request)

ReadsOrRuns == reads' # reads \/ runs' # runs

\* C3 as stated: no step reads pixels or runs a task unless an explicit
\* trigger (compute or persist) has been called and not yet finished, and the
\* caller is suspended only inside such a call.
C3_ReadsOnlyAfterTrigger ==
    [][ /\ ReadsOrRuns => exec \in {"compute", "persist"}
        /\ Suspended' => exec' \in {"compute", "persist"} ]_vars

\* C3 amended: on a chunked (dask-backed) array no step reads pixels or runs
\* a task unless compute, persist or a plot has been called and not yet
\* finished, and composing an operation does neither; on an array opened
\* without chunks a reduction or a plot reads the data at once. The caller is
\* suspended only inside compute or a plot of a dask array.
C3_LazyUntilTriggered ==
    [][ /\ ReadsOrRuns => (exec \in {"compute", "persist", "plot"} \/ backing = "file")
        /\ graph' > graph => ~ReadsOrRuns
        /\ Suspended' => (exec' \in {"compute", "plot"} /\ backing' = "dask") ]_vars

\* C3 witness: a graph of two operations composed on a dask array is being
\* computed, the caller is suspended, and every read made so far was made by
\* a chunk task of this execution.
C3_Witness ==
    /\ backing = "dask"
    /\ exec = "compute"
    /\ graph = 2
    /\ reads >= 1
    /\ reads = runs
    /\ todo # {}
    /\ reads + Cardinality(todo) = NChunks

(***************************************************************************)
(* Claims about paging (SpecGoes).                                         *)
(***************************************************************************)
\* the number of descriptors the caller holds: get_all_items hands over the
\* result when it returns
Consumed == IF pc \in {"start", "searching"} THEN 0 ELSE Len(items)

\* the number of positions of the result that hold descriptor i
Occurrences(i) == Cardinality({ k \in DOMAIN items : Descriptor(items[k]) = i })

\* the result holds every matching descriptor exactly once and nothing else,
\* page after page in the order of the server
CompleteInPageOrder ==
    /\ [k \in DOMAIN items |-> Descriptor(items[k])] = Results(catalog, request)
    /\ \A i \in catalog : Occurrences(i) = (IF Matches(i, request) THEN 1 ELSE 0)

\* C11 as stated: the result holds every matching descriptor exactly once in
\* page order, and a page after the first is requested only when the caller
\* has consumed every descriptor of the pages before it.
C11_PagesFetchedOnDemand ==
    /\ [](pc = "searched" => CompleteInPageOrder)
    /\ [][(pages' > pages /\ pages >= 1) => Consumed = Len(items)]_vars

\* C11 amended: get_all_items requests the pages one after the other until
\* the results are exhausted, before the caller holds any descriptor; what it
\* returns holds every matching descriptor exactly once, in page order.
C11_AllPagesThenReturn ==
    /\ [](pc = "searched" => CompleteInPageOrder)
    /\ [](pc = "searching" =>
            /\ Len(items) = pages * Limit
            /\ Len(items) <= Len(Results(catalog, request))
            /\ [k \in DOMAIN items |-> Descriptor(items[k])]
                 = SubSeq(Results(catalog, request), 1, Len(items)))
    /\ [][pages' > pages => (Consumed = 0 /\ pages' = pages + 1)]_vars

\* C11 witness: a result of two descriptors that came in more than one page
C11_Witness ==
    /\ pc = "searched"
    /\ pages >= 2
    /\ Len(items) >= 2
    /\ Consumed = Len(items)

(***************************************************************************)
(* Claims about the bands of the built array (SpecGoes).                   *)
(***************************************************************************)
\* the build cell has run
BuildEnded == pc \in {"built", "IndexError", "KeyError"}

SourceTimes == { items[k].datetime : k \in DOMAIN items }

\* the number of entries of the time axis that equal t
AxisCount(t) == Cardinality({ k \in DOMAIN data.time : data.time[k] = t })

\* the number of source items whose timestamp is t
ItemCount(t) == Cardinality({ k \in DOMAIN items : items[k].datetime = t })

\* C17 as stated: the time axis is strictly increasing, holds every source
\* timestamp exactly once and holds no other value.
C17_TimeAxisSortedDeduplicated ==
    pc = "built" =>
        /\ \A j, k \in DOMAIN data.time : j < k => data.time[j] < data.time[k]
        /\ \A t \in SourceTimes : AxisCount(t) = 1
        /\ \A k \in DOMAIN data.time : data.time[k] \in SourceTimes

\* C17 amended: the time axis holds the timestamps of the source items in
\* non-decreasing order, one entry per item: a timestamp appears as often as
\* there are items with it, and no other value appears, whatever the order
\* of the input descriptors.
C17_TimeAxisSortedPerItem ==
    pc = "built" =>
        /\ \A j, k \in DOMAIN data.time : j < k => data.time[j] <= data.time[k]
        /\ Len(data.time) = Len(items)
        /\ \A t \in 1..MaxTime : AxisCount(t) = ItemCount(t)

\* C17 witness: an array built from items that came out of the search later
\* ones first, two of them with the same timestamp.
C17_Witness ==
    /\ pc = "built"
    /\ \E j, k \in DOMAIN items : j < k /\ items[j].datetime > items[k].datetime
    /\ \E j, k \in DOMAIN items : j < k /\ items[j].datetime = items[k].datetime

(***************************************************************************)
(* Claims about the time series (SpecStack).                               *)
(***************************************************************************)
\* the time axis of an array: the timestamps of its slices, in order
TimeAxis(a) == [k \in DOMAIN a |-> a[k].time]

\* C18: the mean over the spatial axes has exactly one value for every entry
\* of the time axis of the array it reduces, in the same order, which is
\* ascending in time; the reduction loses, repeats and moves no timestamp.
C18_MeanKeepsTimeAxis ==
    pc = "ts" =>
        /\ TimeAxis(ts) = TimeAxis(ndvi)
        /\ TimeAxis(ts) = TimeAxis(ds)
        /\ DOMAIN ts = 1..Len(signed_items)
        /\ \A j, k \in DOMAIN ts : j < k => ts[j].time <= ts[k].time
        /\ \A k \in DOMAIN ts : ts[k].value = MeanOf(ndvi[k].data)

\* C18 witness: a time series over two timestamps, of items that were supplied
\* the later one first, with a value that is a number.
C18_Witness ==
    /\ pc = "ts"
    /\ Len(ts) >= 2
    /\ signed_items[1].datetime > signed_items[2].datetime
    /\ ts[1].time < ts[2].time
    /\ \E k \in DOMAIN ts : ts[k].value # NaNFrac

(***************************************************************************)
(* Claims about the option handler (SpecGateway).                          *)
(***************************************************************************)
\* the fraction a is at most the fraction b (denominators are positive)
AtMost(a, b) == a.num * b.den <= b.num * a.den

\* C19: for every accepted option set, worker_cores in [1, 16] and
\* worker_memory in [8, 128], the configuration the handler returns has a CPU
\* request of 0.88 * min(worker_cores / 2, 1), at most the CPU limit
\* worker_cores, and a memory request of 0.9 * worker_memory, at most the
\* memory limit worker_memory (both memories as written with six digits
\* after the point).
C19_RequestsWithinLimits ==
    pc = "configured" =>
        LET o == options[1]
            c == config[1]
        IN  /\ CoresMin * Steps <= o.worker_cores /\ o.worker_cores <= CoresMax * Steps
            /\ MemoryMin * Steps <= o.worker_memory /\ o.worker_memory <= MemoryMax * Steps
            /\ c.worker_cores_limit = [num |-> o.worker_cores, den |-> Steps]
            /\ AtMost(c.worker_cores, c.worker_cores_limit)
            /\ AtMost(c.worker_cores, [num |-> 88, den |-> 100])
            /\ 2 * (c.worker_memory_limit * Steps - o.worker_memory * Million) <= Steps
            /\ 2 * (o.worker_memory * Million - c.worker_memory_limit * Steps) <= Steps
            /\ c.worker_memory <= c.worker_memory_limit
            /\ 10 * c.worker_memory <= 9 * c.worker_memory_limit + 10
            /\ 10 * c.worker_memory >= 9 * c.worker_memory_limit - 10

\* C19 witness: a configuration for more than two cores, where the CPU request
\* is 0.88, and for a memory that is not a whole number of GiB.
C19_Witness ==
    /\ pc = "configured"
    /\ options[1].worker_cores > 2 * Steps
    /\ config[1].worker_cores = [num |-> 88, den |-> 100]
    /\ options[1].worker_memory % Steps # 0
    /\ config[1].worker_memory < config[1].worker_memory_limit

\* the handler has run on accepted options
HandlerEnded == pc \in {"configured", "ValueError"}

\* C20: an image with no ":" makes the handler raise ValueError and return no
\* configuration; for every image with a ":" it returns a configuration whose
\* image is the given option unchanged.
C20_ImageNeedsTag ==
    HandlerEnded =>
        LET image == options[1].image
            tagged == \E k \in 1..Len(image) : image[k] = ":"
        IN  /\ ~tagged => (pc = "ValueError" /\ config = <<>>)
            /\ tagged => (pc = "configured" /\ Len(config) = 1
                              /\ config[1].image = image)

\* C20 witness: the handler has raised for an image that is not empty and has
\* no ":".
C20_Witness ==
    /\ pc = "ValueError"
    /\ Len(options[1].image) >= 1
    /\ \A k \in 1..Len(options[1].image) : options[1].image[k] # ":"
    /\ config = <<>>

\* C21: a cluster created from a notebook server without an explicit image
\* option gets, as the image of its workers, the name and the tag of the
\* single-user image.
C21_DefaultImageIsSingleuser ==
    (pc = "configured" /\ "image" \notin options[1].given) =>
        /\ Len(config) = 1
        /\ config[1].image = <<SingleuserName, ":", SingleuserTag>>

\* C21 witness: a configuration returned for options that named no image
C21_Witness ==
    /\ pc = "configured"
    /\ options[1].given = {}
    /\ config[1].image[1] = SingleuserName
    /\ config[1].image[3] = SingleuserTag

(***************************************************************************)
(* Claims about the deployment (SpecDeploy).                               *)
(***************************************************************************)
\* a pool whose nodes have the label k8s.dask.org/dedicated=worker
Dedicated(p) == <<"k8s.dask.org/dedicated", "worker">> \in PoolLabels(p)

\* C22: a dask worker pod is only ever on a node with the label
\* k8s.dask.org/dedicated=worker; the nodes of the pool workers have that
\* label and no node of the pools core, users and manualusers has it.
C22_WorkersOnWorkerPool ==
    /\ \A p \in DOMAIN pods : pods[p] >= 1 => (Dedicated(p) /\ p = "workers")
    /\ Dedicated("workers")
    /\ \A p \in {"core", "users", "manualusers"} : ~Dedicated(p)

\* C22 witness: a worker pod is on the pool workers while the pools core,
\* users and manualusers all have a node.
C22_Witness ==
    /\ DOMAIN nodes = PoolNames
    /\ pods["workers"] >= 1
    /\ \A p \in {"core", "users", "manualusers"} : nodes[p] >= 1 /\ pods[p] = 0

(***************************************************************************)
(* Claims about the summer warming comparison (SpecDaymet).                *)
(***************************************************************************)
\* C24: the early and the late period select disjoint sets of timestamps: no
\* timestamp contributes both to the early mean and to the late mean.
C24_PeriodsDisjoint ==
    pc = "periods" => early \cap late = {}

(***************************************************************************)
(* Claims about the storm track (SpecStorm).                               *)
(***************************************************************************)
\* C25: the storm that storm_loc designates has the sid STORM_ID; when no
\* storm of the dataset has that sid, no storm is selected.
C25_StormLocDesignatesStorm ==
    /\ pc = "sel" => (Len(storm) = 1 /\ storm[1].sid = STORM_ID)
    /\ (pc \in {"storm_loc", "sel", "ValueError"}
           /\ \A k \in DOMAIN sid : sid[k] # STORM_ID) => storm = <<>>

(***************************************************************************)
(* Claims about the animation (SpecAnimate).                               *)
(***************************************************************************)
\* C26: after every call animate(i) the image and the label shown are those
\* of the time index i; the calls have exactly the indices 0 .. len(rgb) - 1,
\* none outside the time axis, and the frames come in non-decreasing order of
\* their timestamps.
C26_FramesFollowTimeAxis ==
    /\ pc \in {"animate", "save"} =>
          LET i == calls[Len(calls)]
          IN  /\ img = << data.source[i + 1] >>
              /\ label = << data.time[i + 1] >>
              /\ data.source[i + 1][1].item.datetime = data.time[i + 1]
    /\ \A k \in DOMAIN calls : 0 <= calls[k] /\ calls[k] <= Len(data.time) - 1
    /\ pc = "save" =>
          { calls[k] : k \in DOMAIN calls } = 0..(Len(data.time) - 1)
    /\ \A j, k \in DOMAIN calls :
          j < k => data.time[calls[j] + 1] <= data.time[calls[k] + 1]

\* C26 witness: the animation is saved, it had at least two frames of
\* different timestamps, from items that came out of the search later ones
\* first, and the figure shows the last frame.
C26_Witness ==
    /\ pc = "save"
    /\ Len(data.time) >= 2
    /\ items[1].datetime > items[Len(items)].datetime
    /\ data.time[1] < data.time[Len(data.time)]
    /\ label = << data.time[Len(data.time)] >>

(***************************************************************************)
(* Claims about the Landsat signing loop (SpecLandsat).                    *)
(***************************************************************************)
\* the signing loop has run to its end
LoopFinished == pc \in {"signed", "SR_B4", "stack", "IndexError"}

\* C27: no step of the notebook changes an object of `items` (each item is
\* cloned before its proj:epsg is overwritten and its links are cleared), and
\* once the loop has ended signed_items has one element per element of items,
\* in the same order, each a signed object other than the original with
\* proj:epsg 32619 and no links.
C27_LoopLeavesItemsUntouched ==
    /\ [][\A k \in DOMAIN items : heap'[items[k]] = heap[items[k]]]_vars
    /\ [](LoopFinished =>
            /\ Len(signed_items) = Len(items)
            /\ \A k \in DOMAIN items :
                 /\ signed_items[k] # items[k]
                 /\ heap[signed_items[k]].id = heap[items[k]].id
                 /\ heap[signed_items[k]].epsg = FixedEpsg
                 /\ heap[signed_items[k]].links = {}
                 /\ heap[signed_items[k]].signed)

\* C27 witness: the loop has ended over two items, one of which still carries
\* another EPSG code and its links
C27_Witness ==
    /\ LoopFinished
    /\ Len(items) = 2
    /\ Len(signed_items) = 2
    /\ \E k \in DOMAIN items :
         /\ heap[items[k]].epsg # FixedEpsg
         /\ heap[items[k]].links # {}
         /\ heap[signed_items[k]].epsg = FixedEpsg

\* C28 as stated: every item whose asset href was opened or stacked is signed.
C28_OpenedOnlySigned ==
    \A k \in DOMAIN opened : heap[opened[k]].signed

\* C28 amended: every Landsat item whose href was opened or stacked is an
\* element of signed_items, signed, and made by the loop after the search
\* returned the item of that id; the NASADEM item is opened unsigned.
C28_LandsatOpenedOnlySigned ==
    \A k \in DOMAIN opened :
        LET obj == heap[opened[k]]
        IN  IF obj.id[1] = "nasadem"
              THEN ~obj.signed
              ELSE /\ obj.signed
                   /\ \E j \in DOMAIN signed_items :
                        /\ signed_items[j] = opened[k]
                        /\ items[j] < opened[k]
                        /\ heap[items[j]].id = obj.id

\* C28 witness: the elevation raster was opened and the signed Landsat items
\* were opened and stacked
C28_Witness ==
    /\ pc = "stack"
    /\ \E k \in DOMAIN opened : heap[opened[k]].id[1] = "nasadem"
    /\ \E k \in DOMAIN opened : heap[opened[k]].id[1] = "landsat-8-c2-l2"
    /\ Len(opened) >= 3

====
